---- MODULE Spec2Model ----
(***************************************************************************)
(* Pony Poker server: the in-memory session store, the connection          *)
(* registry, the command handlers of handleMessage, handleDisconnect and   *)
(* the vote analysis, as a state machine.  One action per inbound socket   *)
(* event (connection, message of each type, close).  A handler is an       *)
(* operator on the current state whose value is the state it leaves, the   *)
(* messages it sends, in order, and the branches it took; the socket       *)
(* actions install that state.  What was sent is handed to the network     *)
(* and is no state of the server.                                          *)
(*                                                                         *)
(* Representation:                                                         *)
(*   - a JS object / Map is a function whose DOMAIN is its key set;        *)
(*   - uuidv4() never returns a value twice: the ids made for users are    *)
(*     1, 2, ... and those made for tickets TicketBase + 1, ... (nextId     *)
(*     counts both kinds);                                                 *)
(*   - null / undefined ids are Null (0); findIndex's -1 is 0;             *)
(*   - numbers that can be fractional are kept scaled: the average in      *)
(*     tenths (average10), the median in halves (median2).                 *)
(***************************************************************************)
EXTENDS Integers, Sequences, FiniteSets, TLC

VARIABLES
    sessions,        \* sessions: Record<string, TeamSession>
    clientSessions,  \* clientSessions: Map<WebSocket, {sessionCode, userId}>
    open,            \* the sockets of wss.clients whose readyState is OPEN
    nextId           \* how many ids uuidv4() has made: [user |-> n, ticket |-> n]

vars == <<sessions, clientSessions, open, nextId>>

(***************************************************************************)
(* Bounds and input sets                                                   *)
(***************************************************************************)
MaxUsers == 2         \* users ever made (calls of uuidv4 in join)
MaxTickets == 1       \* tickets ever made, in Spec
MaxTicketsOne == 2    \* tickets ever made, in SpecOne
MaxVoters == 4        \* users made besides the observer, in SpecAnalyze

Conns == {"w1", "w2"}
Names == {"ann", "bob"}
Roles == {"player", "observer"}
Titles == {"T"}
Descriptions == {"D"}

\* Spec: two team codes, two values of the scale and one off it
Codes == {"A", "B"}
PointInputs == {1, 5, 4}

\* SpecOne: one team code, one value of the scale and one off it, one more ticket
CodesOne == {"A"}
PointInputsOne == {3, 4}

\* sessions is a plain object ({}): a key such as "constructor" reads a member
\* inherited from Object.prototype, which is truthy and has no users
InheritedKeys == {"constructor"}

\* SpecAnalyze: the values voted, and the names of the users made, in order
AnalyzePoints == {1, 2, 3, 8}
VoterNames == <<"ann", "bob", "cat", "dan", "eve", "fay", "gus", "hal">>

Null == 0
TicketBase == 100
NoWs == "none"

POINT_VALUES == <<1, 2, 3, 5, 8, 13>>

(***************************************************************************)
(* Array helpers                                                           *)
(***************************************************************************)
\* Array.prototype.findIndex / find: the first index whose element satisfies P, else 0
FindIndex(s, P(_)) ==
    IF \E i \in 1..Len(s) : P(s[i])
    THEN CHOOSE i \in 1..Len(s) : P(s[i]) /\ \A j \in 1..(i - 1) : ~P(s[j])
    ELSE 0

\* Array.prototype.splice(i, 1)
RemoveAt(s, i) == SubSeq(s, 1, i - 1) \o SubSeq(s, i + 1, Len(s))

\* delete obj[k] / map.delete(k)
DeleteKey(f, k) == [x \in (DOMAIN f) \ {k} |-> f[x]]

\* obj[k] = v / map.set(k, v)
SetKey(f, k, v) == [x \in (DOMAIN f) \cup {k} |-> IF x = k THEN v ELSE f[x]]

EmptyMap == << >>

(***************************************************************************)
(* Sending                                                                 *)
(***************************************************************************)
\* ws.send(JSON.stringify(message))
Send(ws, message) == [to |-> {ws}, msg |-> message]

\* the error goes out to every open socket
ErrorToAll(ws, text) == [to |-> open, msg |-> [type |-> "error", message |-> text]]

ErrorTo(ws, text) == Send(ws, [type |-> "error", message |-> text])

\* excludeWs is not compared
RecipientsAll(cs, op, sessionCode, excludeWs) ==
    {c \in op : c \in DOMAIN cs /\ cs[c].sessionCode = sessionCode}

\* the session of a client is not compared
RecipientsAnySession(cs, op, sessionCode, excludeWs) ==
    {c \in op : c # excludeWs /\ c \in DOMAIN cs}

\* the clients broadcast() sends to
Recipients(cs, op, sessionCode, excludeWs) ==
    {c \in op : c # excludeWs /\ c \in DOMAIN cs /\ cs[c].sessionCode = sessionCode}

broadcast(cs, op, sessionCode, message, excludeWs) ==
    [to |-> Recipients(cs, op, sessionCode, excludeWs), msg |-> message]

\* wss.clients.forEach(client => { ... client.send(data) }): the sockets are
\* visited in the order clients, from position i; the sockets in failing are
\* those whose send raises: the exception ends the loop and leaves broadcast
RECURSIVE SendEach(_, _, _, _)
SendEach(to, clients, i, failing) ==
    IF i > Len(clients) THEN [delivered |-> {}, raised |-> FALSE]
    ELSE IF clients[i] \notin to THEN SendEach(to, clients, i + 1, failing)
    ELSE IF clients[i] \in failing THEN [delivered |-> {}, raised |-> TRUE]
    ELSE LET rest == SendEach(to, clients, i + 1, failing)
         IN  [delivered |-> {clients[i]} \cup rest.delivered, raised |-> rest.raised]

\* the orders in which wss.clients can hold the sockets
ClientOrders ==
    {s \in [1..Cardinality(Conns) -> Conns] :
        \A i, j \in 1..Cardinality(Conns) : i # j => s[i] # s[j]}

(***************************************************************************)
(* Counting and analysis                                                   *)
(***************************************************************************)
PlayerIds(session) ==
    {session.users[i].id : i \in {j \in 1..Len(session.users) : session.users[j].role = "player"}}

getPlayerCount(session) ==
    Cardinality({i \in 1..Len(session.users) : session.users[i].role = "player"})

\* the entries of ticket.votes that count: keyed by a current player (no stored value is null)
CountedVoters(ticket, session) ==
    {id \in DOMAIN ticket.votes : id \in PlayerIds(session)}

getVoteCount(ticket, session) == Cardinality(CountedVoters(ticket, session))

RECURSIVE SumOver(_, _)
SumOver(f, S) ==
    IF S = {} THEN 0
    ELSE LET x == CHOOSE y \in S : TRUE IN f[x] + SumOver(f, S \ {x})

\* Math.floor in place of Math.round
RoundDown(n, d) == n \div d

\* Math.round(x) for x = n / d >= 0: floor(x + 1/2)
RoundDiv(n, d) == (2 * n + d) \div (2 * d)

\* calculateAverage, in tenths: Math.round(sum / length * 10) / 10
calculateAverage(ticket) ==
    LET ids == DOMAIN ticket.votes
    IN  IF ids = {} THEN 0
        ELSE RoundDiv(10 * SumOver(ticket.votes, ids), Cardinality(ids))

Abs(x) == IF x < 0 THEN 0 - x ELSE x

\* a point at the same distance replaces the closest so far (<= for <)
RECURSIVE NearestFromLast(_, _, _)
NearestFromLast(value2, i, closest) ==
    IF i > Len(POINT_VALUES) THEN closest
    ELSE NearestFromLast(value2, i + 1,
            IF Abs(value2 - 2 * POINT_VALUES[i]) <= Abs(value2 - 2 * closest)
            THEN POINT_VALUES[i] ELSE closest)

\* roundToNearestPoint, on a value given in halves
RECURSIVE NearestFrom(_, _, _)
NearestFrom(value2, i, closest) ==
    IF i > Len(POINT_VALUES) THEN closest
    ELSE NearestFrom(value2, i + 1,
            IF Abs(value2 - 2 * POINT_VALUES[i]) < Abs(value2 - 2 * closest)
            THEN POINT_VALUES[i] ELSE closest)

\* the median is not halved: the sum of the two middle votes is rounded
roundSumToNearestPoint(value2) == NearestFrom(2 * value2, 1, POINT_VALUES[1])

roundToNearestPoint(value2) == NearestFrom(value2, 1, POINT_VALUES[1])

\* votes.map(v => v.value).sort((a, b) => a - b)
RECURSIVE SortedValues(_, _)
SortedValues(f, S) ==
    IF S = {} THEN << >>
    ELSE LET x == CHOOSE y \in S : \A z \in S : f[y] <= f[z]
         IN  <<f[x]>> \o SortedValues(f, S \ {x})

\* every stored vote is analysed, as calculateAverage averages every stored vote
AnalyzedVotersAll(ticket, session) == DOMAIN ticket.votes

\* analyzeVotes' own filter: the entries of ticket.votes keyed by a current player
AnalyzedVoters(ticket, session) ==
    {id \in DOMAIN ticket.votes : id \in PlayerIds(session)}

\* Object.entries / Object.keys of an object whose keys are integers: ascending
RECURSIVE EntriesOrder(_)
EntriesOrder(S) ==
    IF S = {} THEN << >>
    ELSE LET x == CHOOSE y \in S : \A z \in S : y <= z
         IN  <<x>> \o EntriesOrder(S \ {x})

\* a value with as many voters replaces the mode so far (>= for >)
RECURSIVE ModeFromLast(_, _, _, _, _)
ModeFromLast(distribution, keys, i, mode, maxCount) ==
    IF i > Len(keys) THEN [mode |-> mode, maxCount |-> maxCount]
    ELSE IF Cardinality(distribution[keys[i]]) >= maxCount
         THEN ModeFromLast(distribution, keys, i + 1, keys[i], Cardinality(distribution[keys[i]]))
         ELSE ModeFromLast(distribution, keys, i + 1, mode, maxCount)

\* for (const [value, userIds] of Object.entries(distribution))
\*     if (userIds.length > maxCount) { maxCount = userIds.length; mode = Number(value) }
RECURSIVE ModeFrom(_, _, _, _, _)
ModeFrom(distribution, keys, i, mode, maxCount) ==
    IF i > Len(keys) THEN [mode |-> mode, maxCount |-> maxCount]
    ELSE IF Cardinality(distribution[keys[i]]) > maxCount
         THEN ModeFrom(distribution, keys, i + 1, keys[i], Cardinality(distribution[keys[i]]))
         ELSE ModeFrom(distribution, keys, i + 1, mode, maxCount)

\* agreement is taken for granted as soon as at most two values appear
ConsensusNear(distribution) == Cardinality(DOMAIN distribution) <= 2

\* uniqueVotes === 1
Consensus(distribution) == Cardinality(DOMAIN distribution) = 1

analyzeVotes(ticket, session) ==
    LET voters == AnalyzedVoters(ticket, session)
        n == Cardinality(voters)
        values == {ticket.votes[id] : id \in voters}
        distribution == [v \in values |-> {id \in voters : ticket.votes[id] = v}]
        scan == ModeFrom(distribution, EntriesOrder(values), 1, Null, 0)
        mode == scan.mode
        maxCount == scan.maxCount
        sortedValues == SortedValues(ticket.votes, voters)
        mid == n \div 2
        median2 == IF n % 2 = 0
                   THEN sortedValues[mid] + sortedValues[mid + 1]
                   ELSE 2 * sortedValues[mid + 1]
        consensus == Consensus(distribution)
    IN  IF n = 0
        THEN [consensus |-> FALSE, mode |-> Null, median2 |-> 0,
              distribution |-> EmptyMap, recommendedPoint |-> 0]
        ELSE [consensus |-> consensus, mode |-> mode, median2 |-> median2,
              distribution |-> distribution,
              recommendedPoint |->
                  IF consensus THEN mode
                  ELSE IF 2 * maxCount > n THEN mode
                  ELSE roundToNearestPoint(median2)]

(***************************************************************************)
(* Handler results: the store, the registry and the id counter after the   *)
(* handler, what it sent, and the branches it took.                        *)
(***************************************************************************)
Result(ss, cs, nid, ev, tags) ==
    [sessions |-> ss, clientSessions |-> cs, nextId |-> nid, events |-> ev, path |-> tags]

\* ws.send(error); return
Reject(ws, text, tag) ==
    Result(sessions, clientSessions, nextId, <<ErrorTo(ws, text)>>, {tag})

\* session.users of an undefined session: the TypeError leaves handleMessage
Throw == Result(sessions, clientSessions, nextId, << >>, {"throw"})

\* uuidv4() at the two places that call it
NewUserId == nextId.user + 1

\* the id of the first ticket is handed out again
NewTicketIdFixed == TicketBase + 1

NewTicketId == TicketBase + nextId.ticket + 1

NewSession(teamCode) ==
    [code |-> teamCode, users |-> << >>, tickets |-> << >>,
     selectedTicketId |-> Null, votingRevealed |-> FALSE]

UserIndex(session, userId) == FindIndex(session.users, LAMBDA u : u.id = userId)

NameIndex(session, name) == FindIndex(session.users, LAMBDA u : u.name = name)

\* find(t => t.id): the requested id is not compared
FindTicketAny(session, ticketId) == IF Len(session.tickets) > 0 THEN 1 ELSE 0

FindTicket(session, ticketId) == FindIndex(session.tickets, LAMBDA t : t.id = ticketId)

(***************************************************************************)
(* join                                                                    *)
(***************************************************************************)
\* a second entry with the same id is pushed; the entry found is not updated
ReconcilePush(users, idx, name, role) ==
    Append(users, [id |-> users[idx].id, name |-> name, role |-> role])

\* user.name = name; user.role = role
Reconcile(users, idx, name, role) ==
    [users EXCEPT ![idx] = [id |-> users[idx].id, name |-> name, role |-> role]]

\* the splice is left out
ReplaceUserKeep(users, idx, user) == Append(users, user)

\* session.users.splice(existingUserIndex, 1); ...; session.users.push(user)
ReplaceUser(users, idx, user) == Append(RemoveAt(users, idx), user)

handleJoin(ws, m) ==
    \* sessions[teamCode] is an inherited member: no session is made for it and
    \* session.users.find / findIndex is a TypeError, before anything is assigned
    IF m.teamCode \in InheritedKeys THEN Throw ELSE
    LET teamCode == m.teamCode
        created == teamCode \notin DOMAIN sessions
        session == IF created THEN NewSession(teamCode) ELSE sessions[teamCode]
        byId == IF m.userId # Null THEN UserIndex(session, m.userId) ELSE 0
        byName == IF byId = 0 THEN NameIndex(session, m.name) ELSE 0
        user == [id |-> IF byId # 0 THEN session.users[byId].id ELSE NewUserId,
                 name |-> m.name, role |-> m.role]
        users2 == IF byId # 0 THEN Reconcile(session.users, byId, m.name, m.role)
                  ELSE IF byName # 0 THEN ReplaceUser(session.users, byName, user)
                  ELSE Append(session.users, user)
        session2 == [session EXCEPT !.users = users2]
        cs2 == SetKey(clientSessions, ws, [sessionCode |-> teamCode, userId |-> user.id])
        left == IF byName # 0
                THEN <<broadcast(clientSessions, open, teamCode,
                                 [type |-> "userLeft", userId |-> session.users[byName].id], ws)>>
                ELSE << >>
    IN  Result(SetKey(sessions, teamCode, session2), cs2,
               IF byId # 0 THEN nextId ELSE [nextId EXCEPT !.user = @ + 1],
               left \o <<Send(ws, [type |-> "sessionState", session |-> session2,
                                   userId |-> user.id]),
                         broadcast(cs2, open, teamCode,
                                   [type |-> "userJoined", user |-> user], ws)>>,
               (IF created THEN {"created"} ELSE {})
                 \cup {IF byId # 0 THEN "reconcile" ELSE IF byName # 0 THEN "replace" ELSE "new"})

(***************************************************************************)
(* leave / close                                                           *)
(***************************************************************************)
\* the empty session is never deleted
CleanUpNever(ss, code) == ss

\* only a session without tickets is deleted
CleanUpLate(ss, code) ==
    IF Len(ss[code].users) = 0 /\ Len(ss[code].tickets) = 0 THEN DeleteKey(ss, code) ELSE ss

\* if (session.users.length === 0) delete sessions[code]
CleanUp(ss, code) == IF Len(ss[code].users) = 0 THEN DeleteKey(ss, code) ELSE ss

\* the association is dropped only when its session was found
ForgetInSession(cs, ws, found) == IF found THEN DeleteKey(cs, ws) ELSE cs

\* clientSessions.delete(ws): outside the if (session) block
Forget(cs, ws, found) == DeleteKey(cs, ws)

\* handleDisconnect on the store ss and the registry cs;
\* op: the sockets that are OPEN while it runs
Disconnect(ss, cs, nid, ws, op) ==
    IF ws \notin DOMAIN cs
    THEN Result(ss, cs, nid, << >>, {"noInfo"})
    ELSE LET info == cs[ws]
             code == info.sessionCode
         IN  IF code \notin DOMAIN ss
             THEN Result(ss, Forget(cs, ws, FALSE), nid, << >>, {"noSession"})
             ELSE LET session == ss[code]
                      idx == UserIndex(session, info.userId)
                      users2 == IF idx # 0 THEN RemoveAt(session.users, idx) ELSE session.users
                      ss2 == CleanUp(SetKey(ss, code, [session EXCEPT !.users = users2]), code)
                  IN  Result(ss2, Forget(cs, ws, TRUE), nid,
                             IF idx # 0
                             THEN <<broadcast(cs, op, code,
                                              [type |-> "userLeft", userId |-> info.userId], NoWs)>>
                             ELSE << >>,
                             (IF idx # 0 THEN {"removed"} ELSE {"noUser"})
                               \cup (IF code \notin DOMAIN ss2 THEN {"deleted"} ELSE {}))

handleDisconnect(ws, op) == Disconnect(sessions, clientSessions, nextId, ws, op)

(***************************************************************************)
(* The checks every other command starts with                              *)
(***************************************************************************)
\* the role of the user is not looked at
AccessAnyRole(ws, role) ==
    IF ws \notin DOMAIN clientSessions THEN "notInSession"
    ELSE LET info == clientSessions[ws]
         IN  IF info.sessionCode \notin DOMAIN sessions THEN "throw"
             ELSE IF UserIndex(sessions[info.sessionCode], info.userId) = 0
                  THEN "forbidden" ELSE "ok"

\* "notInSession": no clientInfo; "throw": sessions[code] is undefined;
\* "forbidden": no such user, or not the role; "ok"
Access(ws, role) ==
    IF ws \notin DOMAIN clientSessions THEN "notInSession"
    ELSE LET info == clientSessions[ws]
         IN  IF info.sessionCode \notin DOMAIN sessions THEN "throw"
             ELSE LET idx == UserIndex(sessions[info.sessionCode], info.userId)
                  IN  IF idx = 0 \/ sessions[info.sessionCode].users[idx].role # role
                      THEN "forbidden" ELSE "ok"

SessionOf(ws) == sessions[clientSessions[ws].sessionCode]

Commit(ws, session2, nid, ev, tags) ==
    Result(SetKey(sessions, clientSessions[ws].sessionCode, session2),
           clientSessions, nid, ev, tags)

(***************************************************************************)
(* addTicket                                                               *)
(***************************************************************************)
handleAddTicket(ws, m) ==
    LET a == Access(ws, "observer")
    IN  IF a = "notInSession" THEN Reject(ws, "Not in a session", a)
        ELSE IF a = "throw" THEN Throw
        ELSE IF a = "forbidden" THEN Reject(ws, "Only observers can add tickets", a)
        ELSE LET ticket == [id |-> NewTicketId, title |-> m.title, description |-> m.description,
                            votes |-> EmptyMap, revealed |-> FALSE]
                 session == SessionOf(ws)
             IN  Commit(ws, [session EXCEPT !.tickets = Append(@, ticket)],
                        [nextId EXCEPT !.ticket = @ + 1],
                        <<broadcast(clientSessions, open, session.code,
                                    [type |-> "ticketAdded", ticket |-> ticket], NoWs)>>,
                        {"ok"})

(***************************************************************************)
(* selectTicket                                                            *)
(***************************************************************************)
\* session.votingRevealed is left as it was
SelectOnly(session, ticketId, idx) == [session EXCEPT !.selectedTicketId = ticketId]

\* selecting starts the ticket over: it is no longer revealed
SelectAnew(session, ticketId, idx) ==
    [session EXCEPT !.selectedTicketId = ticketId,
                    !.votingRevealed = FALSE,
                    !.tickets[idx].revealed = FALSE]

\* a selection always starts hidden
SelectHidden(session, ticketId, idx) ==
    [session EXCEPT !.selectedTicketId = ticketId, !.votingRevealed = FALSE]

\* session.selectedTicketId = message.ticketId; session.votingRevealed = ticket.revealed
Select(session, ticketId, idx) ==
    [session EXCEPT !.selectedTicketId = ticketId,
                    !.votingRevealed = session.tickets[idx].revealed]

handleSelectTicket(ws, m) ==
    LET a == Access(ws, "observer")
    IN  IF a = "notInSession" THEN Reject(ws, "Not in a session", a)
        ELSE IF a = "throw" THEN Throw
        ELSE IF a = "forbidden" THEN Reject(ws, "Only observers can select tickets", a)
        ELSE LET session == SessionOf(ws)
                 idx == FindTicket(session, m.ticketId)
             IN  IF idx = 0 THEN Reject(ws, "Ticket not found", "notFound")
                 ELSE LET session2 == Select(session, m.ticketId, idx)
                          ticket == session2.tickets[idx]
                      IN  Commit(ws, session2, nextId,
                                 <<broadcast(clientSessions, open, session.code,
                                     [type |-> "ticketSelected", ticket |-> ticket,
                                      votedCount |-> getVoteCount(ticket, session2),
                                      totalPlayers |-> getPlayerCount(session2)], NoWs)>>,
                                 {"ok"})

(***************************************************************************)
(* revealing (shared by vote's auto-reveal and revealVotes)                *)
(***************************************************************************)
\* ticket.revealed is left as it was
RevealSessionOnly(session, idx) == [session EXCEPT !.votingRevealed = TRUE]

\* the two flags are flipped instead of set
RevealToggle(session, idx) ==
    [session EXCEPT !.votingRevealed = ~@, !.tickets[idx].revealed = ~@]

\* session.votingRevealed = true; ticket.revealed = true
Reveal(session, idx) ==
    [session EXCEPT !.votingRevealed = TRUE, !.tickets[idx].revealed = TRUE]

votesRevealed(session, idx) ==
    broadcast(clientSessions, open, session.code,
              [type |-> "votesRevealed", ticket |-> session.tickets[idx],
               average10 |-> calculateAverage(session.tickets[idx]),
               analysis |-> analyzeVotes(session.tickets[idx], session)], NoWs)

(***************************************************************************)
(* vote                                                                    *)
(***************************************************************************)
\* a range check in place of the membership test
IsPointInRange(points) == points >= POINT_VALUES[1] /\ points <= POINT_VALUES[Len(POINT_VALUES)]

\* POINT_VALUES.includes(points)
IsPointValue(points) == \E i \in 1..Len(POINT_VALUES) : POINT_VALUES[i] = points

\* totalPlayers > 1 in place of totalPlayers > 0
AllVotedOfSeveral(votedCount, totalPlayers) == votedCount = totalPlayers /\ totalPlayers > 1

\* votedCount === totalPlayers && totalPlayers > 0
AllVoted(votedCount, totalPlayers) == votedCount = totalPlayers /\ totalPlayers > 0

\* twice the points are stored
StoreVoteDoubled(votes, userId, points) == SetKey(votes, userId, 2 * points)

\* the first vote of a user stays
StoreVoteOnce(votes, userId, points) ==
    IF userId \in DOMAIN votes THEN votes ELSE SetKey(votes, userId, points)

\* ticket.votes[clientInfo.userId] = message.points
StoreVote(votes, userId, points) == SetKey(votes, userId, points)

handleVote(ws, m) ==
    LET a == Access(ws, "player")
    IN  IF a = "notInSession" THEN Reject(ws, "Not in a session", a)
        ELSE IF a = "throw" THEN Throw
        ELSE IF a = "forbidden" THEN Reject(ws, "Only players can vote", a)
        ELSE IF SessionOf(ws).selectedTicketId = Null
             THEN Reject(ws, "No ticket selected", "noTicket")
        ELSE IF ~IsPointValue(m.points)
             THEN Reject(ws, "Invalid point value", "invalidPoint")
        ELSE LET session == SessionOf(ws)
                 userId == clientSessions[ws].userId
                 idx == FindTicket(session, session.selectedTicketId)
             IN  IF idx = 0 THEN Reject(ws, "Ticket not found", "notFound")
                 ELSE LET session2 == [session EXCEPT !.tickets[idx].votes =
                                                          StoreVote(@, userId, m.points)]
                          votedCount == getVoteCount(session2.tickets[idx], session2)
                          totalPlayers == getPlayerCount(session2)
                          received == broadcast(clientSessions, open, session.code,
                                          [type |-> "voteReceived",
                                           ticketId |-> session2.tickets[idx].id,
                                           votedCount |-> votedCount,
                                           totalPlayers |-> totalPlayers,
                                           voterId |-> userId], NoWs)
                      IN  IF AllVoted(votedCount, totalPlayers)
                          THEN LET session3 == Reveal(session2, idx)
                               IN  Commit(ws, session3, nextId,
                                          <<received, votesRevealed(session3, idx)>>,
                                          {"ok", "autoReveal"})
                          ELSE Commit(ws, session2, nextId, <<received>>, {"ok"})

(***************************************************************************)
(* revealVotes                                                             *)
(***************************************************************************)
handleRevealVotes(ws, m) ==
    LET a == Access(ws, "observer")
    IN  IF a = "notInSession" THEN Reject(ws, "Not in a session", a)
        ELSE IF a = "throw" THEN Throw
        ELSE IF a = "forbidden" THEN Reject(ws, "Only observers can reveal votes", a)
        ELSE IF SessionOf(ws).selectedTicketId = Null
             THEN Reject(ws, "No ticket selected", "noTicket")
        ELSE LET session == SessionOf(ws)
                 idx == FindTicket(session, session.selectedTicketId)
             IN  IF idx = 0 THEN Reject(ws, "Ticket not found", "notFound")
                 ELSE LET session2 == Reveal(session, idx)
                      IN  Commit(ws, session2, nextId,
                                 <<votesRevealed(session2, idx)>>, {"ok"})

(***************************************************************************)
(* resetVotes                                                              *)
(***************************************************************************)
\* ticket.revealed is left as it was
ResetKeepRevealed(session, idx) ==
    [session EXCEPT !.votingRevealed = FALSE, !.tickets[idx].votes = EmptyMap]

\* ticket.votes = {}; session.votingRevealed = false; ticket.revealed = false
Reset(session, idx) ==
    [session EXCEPT !.votingRevealed = FALSE,
                    !.tickets[idx].votes = EmptyMap,
                    !.tickets[idx].revealed = FALSE]

handleResetVotes(ws, m) ==
    LET a == Access(ws, "observer")
    IN  IF a = "notInSession" THEN Reject(ws, "Not in a session", a)
        ELSE IF a = "throw" THEN Throw
        ELSE IF a = "forbidden" THEN Reject(ws, "Only observers can reset votes", a)
        ELSE IF SessionOf(ws).selectedTicketId = Null
             THEN Reject(ws, "No ticket selected", "noTicket")
        ELSE LET session == SessionOf(ws)
                 idx == FindTicket(session, session.selectedTicketId)
             IN  IF idx = 0 THEN Reject(ws, "Ticket not found", "notFound")
                 ELSE Commit(ws, Reset(session, idx), nextId,
                             <<broadcast(clientSessions, open, session.code,
                                   [type |-> "votesReset",
                                    ticketId |-> session.tickets[idx].id], NoWs)>>,
                             {"ok"})

(***************************************************************************)
(* handleMessage and the socket callbacks of setupWebSocket                *)
(***************************************************************************)
handleMessage(ws, m) ==
    CASE m.type = "join" -> handleJoin(ws, m)
      [] m.type = "leave" -> handleDisconnect(ws, open)
      [] m.type = "addTicket" -> handleAddTicket(ws, m)
      [] m.type = "selectTicket" -> handleSelectTicket(ws, m)
      [] m.type = "vote" -> handleVote(ws, m)
      [] m.type = "revealVotes" -> handleRevealVotes(ws, m)
      [] m.type = "resetVotes" -> handleResetVotes(ws, m)

\* try { handleMessage(...) } catch { ws.send(error 'Invalid message format') }
OnMessageResult(ws, m) ==
    LET r == handleMessage(ws, m)
    IN  IF "throw" \in r.path
        THEN [r EXCEPT !.events = <<ErrorTo(ws, "Invalid message format")>>]
        ELSE r

\* ws.on('message'): the message m arrives on the open socket ws
OnMessage(ws, m) ==
    /\ ws \in open
    /\ LET r == OnMessageResult(ws, m)
       IN  /\ sessions' = r.sessions
           /\ clientSessions' = r.clientSessions
           /\ nextId' = r.nextId
    /\ UNCHANGED open

\* the ids a client can have been told: those of the users and tickets made so far
KnownUserIds == 1..nextId.user

KnownTicketIds == {TicketBase + k : k \in 1..nextId.ticket}

Init ==
    /\ sessions = EmptyMap
    /\ clientSessions = EmptyMap
    /\ open = {}
    /\ nextId = [user |-> 0, ticket |-> 0]

\* wss.on('connection'): a new socket
Connect(ws) ==
    /\ ws \notin open
    /\ open' = open \cup {ws}
    /\ UNCHANGED <<sessions, clientSessions, nextId>>

Join(ws, teamCode, name, role, userId) ==
    /\ userId \in {Null} \cup KnownUserIds
    /\ OnMessage(ws, [type |-> "join", teamCode |-> teamCode, name |-> name,
                      role |-> role, userId |-> userId])
    /\ nextId'.user <= MaxUsers

Leave(ws) ==
    /\ OnMessage(ws, [type |-> "leave"])

AddTicket(ws, title, description, maxTickets) ==
    /\ OnMessage(ws, [type |-> "addTicket", title |-> title, description |-> description])
    /\ nextId'.ticket <= maxTickets

SelectTicket(ws, ticketId) ==
    /\ ticketId \in {Null} \cup KnownTicketIds
    /\ OnMessage(ws, [type |-> "selectTicket", ticketId |-> ticketId])

Vote(ws, points) ==
    /\ OnMessage(ws, [type |-> "vote", points |-> points])

RevealVotes(ws) ==
    /\ OnMessage(ws, [type |-> "revealVotes"])

ResetVotes(ws) ==
    /\ OnMessage(ws, [type |-> "resetVotes"])

\* ws.on('close'): the socket is no longer OPEN when handleDisconnect runs
Close(ws) ==
    /\ ws \in open
    /\ open' = open \ {ws}
    /\ LET r == handleDisconnect(ws, open \ {ws})
       IN  /\ sessions' = r.sessions
           /\ clientSessions' = r.clientSessions
    /\ UNCHANGED nextId

\* the joins that arrive: every team code of codes with every name, role and
\* user id, and one join for each inherited key
JoinInputs(codes) ==
    (codes \X Names \X Roles \X (0..MaxUsers))
    \cup {<<c, "ann", "player", Null>> : c \in InheritedKeys}

Step(codes, points, maxTickets) ==
    \/ \E ws \in Conns : Connect(ws)
    \/ \E ws \in Conns, j \in JoinInputs(codes) : Join(ws, j[1], j[2], j[3], j[4])
    \/ \E ws \in Conns : Leave(ws)
    \/ \E ws \in Conns, title \in Titles, description \in Descriptions :
          AddTicket(ws, title, description, maxTickets)
    \/ \E ws \in Conns, k \in 0..maxTickets :
          SelectTicket(ws, IF k = 0 THEN Null ELSE TicketBase + k)
    \/ \E ws \in Conns, p \in points : Vote(ws, p)
    \/ \E ws \in Conns : RevealVotes(ws)
    \/ \E ws \in Conns : ResetVotes(ws)
    \/ \E ws \in Conns : Close(ws)

Next == Step(Codes, PointInputs, MaxTickets)

NextOne == Step(CodesOne, PointInputsOne, MaxTicketsOne)

\* two sessions, one ticket
Spec == Init /\ [][Next]_vars

(***************************************************************************)
(* The vote analysis on its own.  InitAnalyze draws the inputs of          *)
(* analyzeVotes: a session "A" whose observer (user 1, on w1) added,       *)
(* selected and revealed one ticket, after which the connection w2 made    *)
(* the users 2 .. MaxVoters + 1 one after the other, joining each time     *)
(* under a new name.  Each of them voted or not (vote does not look at     *)
(* revealed) and then stayed a player, joined again under its id as        *)
(* observer, or left; w2 is still associated with the last one unless      *)
(* that one left.  The actions apply analyzeVotes: revealVotes, and the    *)
(* vote of the last user, which reveals again when it completes the set.   *)
(***************************************************************************)
VoterIds == 2..(MaxVoters + 1)

\* the users of the session: the observer, then the voters who did not leave, by id
RECURSIVE VotersFrom(_, _)
VotersFrom(roles, i) ==
    IF i > MaxVoters + 1 THEN << >>
    ELSE (IF roles[i] = "left" THEN << >>
          ELSE <<[id |-> i, name |-> VoterNames[i], role |-> roles[i]]>>)
         \o VotersFrom(roles, i + 1)

AnalyzeSession(roles, votes) ==
    [code |-> "A",
     users |-> <<[id |-> 1, name |-> VoterNames[1], role |-> "observer"]>> \o VotersFrom(roles, 2),
     tickets |-> <<[id |-> TicketBase + 1, title |-> "T", description |-> "D",
                    votes |-> [i \in {j \in VoterIds : votes[j] # Null} |-> votes[i]],
                    revealed |-> TRUE]>>,
     selectedTicketId |-> TicketBase + 1,
     votingRevealed |-> TRUE]

InitAnalyze ==
    \E roles \in [VoterIds -> Roles \cup {"left"}], votes \in [VoterIds -> AnalyzePoints \cup {Null}] :
        /\ sessions = [c \in {"A"} |-> AnalyzeSession(roles, votes)]
        /\ clientSessions =
              [w \in {"w1"} \cup (IF roles[MaxVoters + 1] = "left" THEN {} ELSE {"w2"}) |->
                  [sessionCode |-> "A", userId |-> IF w = "w1" THEN 1 ELSE MaxVoters + 1]]
        /\ open = Conns
        /\ nextId = [user |-> MaxVoters + 1, ticket |-> 1]

NextAnalyze ==
    \/ \E ws \in Conns : RevealVotes(ws)
    \/ \E ws \in Conns, p \in AnalyzePoints : Vote(ws, p)

SpecAnalyze == InitAnalyze /\ [][NextAnalyze]_vars

\* one session, two tickets
SpecOne == Init /\ [][NextOne]_vars

(***************************************************************************)
(* Properties.  A handler is an operator on the current state, so what a   *)
(* command does from any reachable state is a state predicate over its     *)
(* result, for every socket and every input.                               *)
(***************************************************************************)
TheScale == {1, 2, 3, 5, 8, 13}

\* the selected ticket of a session, as a set: empty when none
Selected(session) ==
    {session.tickets[i] : i \in {j \in 1..Len(session.tickets) :
                                    session.tickets[j].id = session.selectedTicketId}}

\* every user who holds the player role has a vote on ticket t, and there is such a user
AllPlayersResponded(session, t) ==
    /\ getPlayerCount(session) > 0
    /\ \A i \in 1..Len(session.users) :
          session.users[i].role = "player" => session.users[i].id \in DOMAIN t.votes

VoteMsgs == {[type |-> "vote", points |-> p] : p \in 0..14}

\* C1: in every reachable state, every session's selectedTicketId is null or the
\* id of a ticket in that session's tickets
C1_SelectedTicketExists ==
    \A code \in DOMAIN sessions :
        \/ sessions[code].selectedTicketId = Null
        \/ \E i \in 1..Len(sessions[code].tickets) :
              sessions[code].tickets[i].id = sessions[code].selectedTicketId

\* a session with two tickets whose second ticket is the selected one
C1_Witness ==
    \E code \in DOMAIN sessions :
        /\ Len(sessions[code].tickets) = 2
        /\ sessions[code].selectedTicketId = sessions[code].tickets[2].id

\* C2: in every reachable state, every session's votingRevealed is the revealed
\* flag of its selected ticket, and false when no ticket is selected
C2_VotingRevealedMirrors ==
    \A code \in DOMAIN sessions :
        sessions[code].votingRevealed =
            (\E t \in Selected(sessions[code]) : t.revealed)

\* a session that holds a revealed ticket while an unrevealed one is selected,
\* and one whose selected ticket is revealed
C2_Witness ==
    \E code \in DOMAIN sessions :
        /\ \E i \in 1..Len(sessions[code].tickets) :
              /\ sessions[code].tickets[i].revealed
              /\ sessions[code].tickets[i].id # sessions[code].selectedTicketId
        /\ sessions[code].selectedTicketId # Null
        /\ ~sessions[code].votingRevealed

\* C3 as claimed: in every reachable state, a selected ticket on which every
\* player of the session (at least one) has a vote is revealed
C3_AllRespondedIsRevealed ==
    \A code \in DOMAIN sessions :
        \A t \in Selected(sessions[code]) :
            AllPlayersResponded(sessions[code], t) =>
                t.revealed /\ sessions[code].votingRevealed

\* C3 as amended: a vote that succeeds leaves the selected ticket revealed (and
\* votingRevealed true) whenever, after it, every player of the session has a
\* vote on that ticket
C3_VoteRevealsWhenAllResponded ==
    \A ws \in open : \A m \in VoteMsgs :
        LET r == handleVote(ws, m)
        IN  "ok" \in r.path =>
                LET after == r.sessions[clientSessions[ws].sessionCode]
                IN  \A t \in Selected(after) :
                        AllPlayersResponded(after, t) =>
                            t.revealed /\ after.votingRevealed

\* the second of two players is about to cast the vote that completes the set
C3_Witness ==
    \E ws \in open :
        LET r == handleVote(ws, [type |-> "vote", points |-> 5])
        IN  /\ "autoReveal" \in r.path
            /\ getPlayerCount(SessionOf(ws)) = 2
            /\ \A t \in Selected(SessionOf(ws)) : ~t.revealed /\ Cardinality(DOMAIN t.votes) = 1

\* C4: a vote that makes the voted count equal to the (positive) player count
\* sets revealed and votingRevealed in the same step and sends votesRevealed
\* right after voteReceived, to the same connections, and nothing else
C4_AutoReveal ==
    \A ws \in open : \A m \in VoteMsgs :
        LET r == OnMessageResult(ws, m)
        IN  "ok" \in r.path =>
                LET after == r.sessions[clientSessions[ws].sessionCode]
                IN  \A t \in Selected(after) :
                        (getVoteCount(t, after) = getPlayerCount(after)
                            /\ getPlayerCount(after) > 0) =>
                            /\ t.revealed
                            /\ after.votingRevealed
                            /\ Len(r.events) = 2
                            /\ r.events[1].msg.type = "voteReceived"
                            /\ r.events[1].msg.votedCount = r.events[1].msg.totalPlayers
                            /\ r.events[2].msg.type = "votesRevealed"
                            /\ r.events[2].msg.ticket = t
                            /\ r.events[2].to = r.events[1].to
                            /\ ws \in r.events[2].to

\* two players and no observer, one has voted: the other's vote reveals
C4_Witness ==
    \E ws \in open :
        LET r == OnMessageResult(ws, [type |-> "vote", points |-> 1])
            s == SessionOf(ws)
        IN  /\ "ok" \in r.path
            /\ Len(s.users) = 2
            /\ getPlayerCount(s) = 2
            /\ \A t \in Selected(s) : ~t.revealed /\ Cardinality(DOMAIN t.votes) = 1
            /\ Len(r.events) = 2
            /\ r.events[2].to = open
            /\ Cardinality(open) = 2

JoinMsgs ==
    {[type |-> "join", teamCode |-> c, name |-> n, role |-> r, userId |-> u] :
        c \in Codes, n \in Names, r \in Roles, u \in {Null} \cup KnownUserIds}

\* the joins of JoinMsgs and those whose team code is an inherited key
JoinMsgsAny ==
    JoinMsgs \cup
    {[type |-> "join", teamCode |-> c, name |-> n, role |-> r, userId |-> u] :
        c \in InheritedKeys, n \in Names, r \in Roles, u \in {Null} \cup KnownUserIds}

\* the join names a user of the session by id
Matches(m) ==
    /\ m.userId # Null
    /\ m.teamCode \in DOMAIN sessions
    /\ \E i \in 1..Len(sessions[m.teamCode].users) :
          sessions[m.teamCode].users[i].id = m.userId

\* the join names no user of the session by id, and one by name
Collides(m) ==
    /\ ~Matches(m)
    /\ m.teamCode \in DOMAIN sessions
    /\ \E i \in 1..Len(sessions[m.teamCode].users) :
          sessions[m.teamCode].users[i].name = m.name

\* the socket's association names a user of an existing session who holds the role
ActsAs(ws, role) ==
    /\ ws \in DOMAIN clientSessions
    /\ clientSessions[ws].sessionCode \in DOMAIN sessions
    /\ \E i \in 1..Len(SessionOf(ws).users) :
          /\ SessionOf(ws).users[i].id = clientSessions[ws].userId
          /\ SessionOf(ws).users[i].role = role

\* every id the server holds anywhere
IdsInUse ==
    UNION {{sessions[c].users[i].id : i \in 1..Len(sessions[c].users)} : c \in DOMAIN sessions}
    \cup UNION {UNION {DOMAIN sessions[c].tickets[i].votes : i \in 1..Len(sessions[c].tickets)} :
                    c \in DOMAIN sessions}
    \cup UNION {{sessions[c].tickets[i].id : i \in 1..Len(sessions[c].tickets)} :
                    c \in DOMAIN sessions}
    \cup {clientSessions[w].userId : w \in DOMAIN clientSessions}

\* C5: a join whose userId matches a user of the session keeps the number of
\* users, keeps every id in place, changes only that user's name and role, and
\* leaves tickets, votes and the selection alone; no session ever holds two
\* users with one id
C5_ReconcileInPlace ==
    /\ \A code \in DOMAIN sessions :
          \A i, j \in 1..Len(sessions[code].users) :
              sessions[code].users[i].id = sessions[code].users[j].id => i = j
    /\ \A ws \in open : \A m \in JoinMsgs :
          Matches(m) =>
              LET r == handleJoin(ws, m)
                  before == sessions[m.teamCode]
                  after == r.sessions[m.teamCode]
              IN  /\ Len(after.users) = Len(before.users)
                  /\ \A i \in 1..Len(before.users) :
                        /\ after.users[i].id = before.users[i].id
                        /\ before.users[i].id # m.userId => after.users[i] = before.users[i]
                        /\ before.users[i].id = m.userId =>
                              after.users[i].name = m.name /\ after.users[i].role = m.role
                  /\ after.tickets = before.tickets
                  /\ after.selectedTicketId = before.selectedTicketId
                  /\ after.votingRevealed = before.votingRevealed
                  /\ r.nextId = nextId
                  /\ r.clientSessions[ws] = [sessionCode |-> m.teamCode, userId |-> m.userId]

\* a re-join that changes both name and role of a user who has a stored vote,
\* in a session of two users with a selected ticket
C5_Witness ==
    \E ws \in open : \E m \in JoinMsgs :
        /\ Matches(m)
        /\ Len(sessions[m.teamCode].users) = 2
        /\ \E i \in 1..2 :
              /\ sessions[m.teamCode].users[i].id = m.userId
              /\ sessions[m.teamCode].users[i].name # m.name
              /\ sessions[m.teamCode].users[i].role # m.role
        /\ \E t \in Selected(sessions[m.teamCode]) : m.userId \in DOMAIN t.votes

\* C6: a join whose name is that of a user of the session, with no matching
\* userId, removes exactly one entry of that name, appends one user with a
\* fresh id, and sends exactly one userLeft, with the removed id, to the other
\* connections of the session
C6_NameCollisionReplaces ==
    \A ws \in open : \A m \in JoinMsgs :
        Collides(m) =>
            LET r == handleJoin(ws, m)
                before == sessions[m.teamCode]
                after == r.sessions[m.teamCode]
                lefts == {k \in 1..Len(r.events) : r.events[k].msg.type = "userLeft"}
            IN  \E i \in 1..Len(before.users) :
                    /\ before.users[i].name = m.name
                    /\ Len(after.users) = Len(before.users)
                    /\ SubSeq(after.users, 1, Len(after.users) - 1) = RemoveAt(before.users, i)
                    /\ after.users[Len(after.users)].name = m.name
                    /\ after.users[Len(after.users)].role = m.role
                    /\ after.users[Len(after.users)].id \notin IdsInUse
                    /\ after.users[Len(after.users)].id # Null
                    /\ Cardinality(lefts) = 1
                    /\ \A k \in lefts :
                          /\ r.events[k].msg.userId = before.users[i].id
                          /\ r.events[k].to =
                                {c \in open \ {ws} :
                                    /\ c \in DOMAIN clientSessions
                                    /\ clientSessions[c].sessionCode = m.teamCode}

\* a join by name into a session of two users, one of them of that name, while
\* another open connection is associated with the session
C6_Witness ==
    \E ws \in open : \E m \in JoinMsgs :
        /\ Collides(m)
        /\ m.userId = Null
        /\ Len(sessions[m.teamCode].users) = 2
        /\ \E c \in open \ {ws} :
              c \in DOMAIN clientSessions /\ clientSessions[c].sessionCode = m.teamCode

\* C7: a vote whose value is off the scale changes nothing and sends one error,
\* to the sender alone
C7_InvalidPointNoMutation ==
    \A ws \in open : \A m \in VoteMsgs :
        m.points \notin TheScale =>
            LET r == OnMessageResult(ws, m)
            IN  /\ r.sessions = sessions
                /\ r.clientSessions = clientSessions
                /\ r.nextId = nextId
                /\ Len(r.events) = 1
                /\ r.events[1].to = {ws}
                /\ r.events[1].msg.type = "error"

\* a player with a selected ticket sends 4: only the value is wrong
C7_Witness ==
    \E ws \in open :
        /\ ActsAs(ws, "player")
        /\ SessionOf(ws).selectedTicketId # Null
        /\ OnMessageResult(ws, [type |-> "vote", points |-> 4]).events
              = <<ErrorTo(ws, "Invalid point value")>>

\* C8: a resetVotes by an observer with a ticket selected empties that ticket's
\* votes, sets its revealed and the session's votingRevealed to false, and
\* changes nothing else: the ticket stays, stays selected, the other tickets
\* and the users are as before
C8_ResetClearsSelected ==
    \A ws \in open :
        (ActsAs(ws, "observer") /\ SessionOf(ws).selectedTicketId # Null) =>
            LET r == handleResetVotes(ws, [type |-> "resetVotes"])
                before == SessionOf(ws)
                after == r.sessions[before.code]
            IN  /\ DOMAIN r.sessions = DOMAIN sessions
                /\ Len(after.tickets) = Len(before.tickets)
                /\ \A i \in 1..Len(before.tickets) :
                      IF before.tickets[i].id = before.selectedTicketId
                      THEN /\ after.tickets[i].votes = EmptyMap
                           /\ ~after.tickets[i].revealed
                           /\ after.tickets[i].id = before.tickets[i].id
                           /\ after.tickets[i].title = before.tickets[i].title
                           /\ after.tickets[i].description = before.tickets[i].description
                      ELSE after.tickets[i] = before.tickets[i]
                /\ ~after.votingRevealed
                /\ after.selectedTicketId = before.selectedTicketId
                /\ after.users = before.users
                /\ \A c \in DOMAIN sessions : c # before.code => r.sessions[c] = sessions[c]
                /\ r.clientSessions = clientSessions

\* an observer is about to reset a revealed ticket that holds two votes, while
\* the other ticket of the session holds a vote too
C8_Witness ==
    \E ws \in open :
        /\ ActsAs(ws, "observer")
        /\ Len(SessionOf(ws).tickets) = 2
        /\ \E t \in Selected(SessionOf(ws)) : t.revealed /\ Cardinality(DOMAIN t.votes) = 2
        /\ \E i \in 1..2 :
              /\ SessionOf(ws).tickets[i].id # SessionOf(ws).selectedTicketId
              /\ SessionOf(ws).tickets[i].votes # EmptyMap
        /\ "ok" \in handleResetVotes(ws, [type |-> "resetVotes"]).path

\* C9: a leave or a close that removes the only user of a session deletes the
\* session in that step, and a join with a code that is not in the store makes
\* a session with no tickets, no selection and votingRevealed false
C9_LastLeaveDeletes ==
    /\ \A ws \in open :
          (/\ ws \in DOMAIN clientSessions
           /\ clientSessions[ws].sessionCode \in DOMAIN sessions
           /\ Len(SessionOf(ws).users) = 1
           /\ SessionOf(ws).users[1].id = clientSessions[ws].userId) =>
              /\ clientSessions[ws].sessionCode
                    \notin DOMAIN OnMessageResult(ws, [type |-> "leave"]).sessions
              /\ clientSessions[ws].sessionCode
                    \notin DOMAIN handleDisconnect(ws, open \ {ws}).sessions
    /\ \A ws \in open : \A m \in JoinMsgs :
          m.teamCode \notin DOMAIN sessions =>
              LET after == handleJoin(ws, m).sessions[m.teamCode]
              IN  /\ after.tickets = << >>
                  /\ after.selectedTicketId = Null
                  /\ ~after.votingRevealed
                  /\ Len(after.users) = 1

\* the store is empty again after a session that held a ticket, and a socket
\* is open to join anew
C9_Witness ==
    /\ sessions = EmptyMap
    /\ nextId.ticket >= 1
    /\ nextId.user < MaxUsers
    /\ open # {}

\* C10: no session in the store has an empty user set
C10_NoEmptySession ==
    \A code \in DOMAIN sessions : Len(sessions[code].users) > 0

\* every user that can be made has been made and has left, and the store is empty
C10_Witness ==
    /\ sessions = EmptyMap
    /\ clientSessions = EmptyMap
    /\ nextId.user = MaxUsers

\* C11: handleDisconnect, on a leave message or on close, leaves the connection
\* without an association whether or not its session or its user was found,
\* and raises nothing; run again on the state it left, it changes neither the
\* store nor the registry and sends nothing
C11_DisconnectTotalIdempotent ==
    \A ws \in open : \A op1, op2 \in {open, open \ {ws}} :
        LET r == handleDisconnect(ws, op1)
            again == Disconnect(r.sessions, r.clientSessions, r.nextId, ws, op2)
            leave == OnMessageResult(ws, [type |-> "leave"])
        IN  /\ ws \notin DOMAIN r.clientSessions
            /\ "throw" \notin r.path
            /\ leave.sessions = handleDisconnect(ws, open).sessions
            /\ leave.clientSessions = handleDisconnect(ws, open).clientSessions
            /\ \A k \in 1..Len(leave.events) : leave.events[k].msg.type # "error"
            /\ again.sessions = r.sessions
            /\ again.clientSessions = r.clientSessions
            /\ again.nextId = r.nextId
            /\ again.events = << >>
            /\ "throw" \notin again.path

\* an open connection is still associated with a session that is gone: its
\* user was replaced by a join of the same name, and the replacing user left
C11_Witness ==
    \E ws \in open :
        /\ ws \in DOMAIN clientSessions
        /\ clientSessions[ws].sessionCode \notin DOMAIN sessions
        /\ "noSession" \in handleDisconnect(ws, open).path

\* the socket's association names a user of an existing session
HasUser(ws) ==
    /\ ws \in DOMAIN clientSessions
    /\ clientSessions[ws].sessionCode \in DOMAIN sessions
    /\ UserIndex(SessionOf(ws), clientSessions[ws].userId) # 0

\* what C12 asks of the result r of a leave or close of ws: the user is gone from
\* the session, and one userLeft with its id went to the other open connections
\* of the session and to no one else
LeftAndToldTheRest(ws, r) ==
    LET code == clientSessions[ws].sessionCode
        userId == clientSessions[ws].userId
    IN  /\ code \in DOMAIN r.sessions =>
              /\ \A i \in 1..Len(r.sessions[code].users) : r.sessions[code].users[i].id # userId
              /\ Len(r.sessions[code].users) = Len(sessions[code].users) - 1
        /\ Len(r.events) = 1
        /\ r.events[1].msg = [type |-> "userLeft", userId |-> userId]
        /\ r.events[1].to = {c \in open \ {ws} :
                                c \in DOMAIN clientSessions /\ clientSessions[c].sessionCode = code}

\* C12: a leave message or a close of a connection whose user is in its session
\* removes the user and delivers userLeft(userId) to every other open connection
\* of the session, and not to the leaving connection
C12_UserLeftToTheRest ==
    \A ws \in open :
        HasUser(ws) =>
            /\ LeftAndToldTheRest(ws, OnMessageResult(ws, [type |-> "leave"]))
            /\ LeftAndToldTheRest(ws, handleDisconnect(ws, open \ {ws}))

\* a ticket id no ticket has
UnknownTicketId == TicketBase + MaxTicketsOne + 2

\* every command a client can send in the current state, join and leave included
Commands ==
    JoinMsgsAny \cup VoteMsgs
    \cup {[type |-> "leave"], [type |-> "revealVotes"], [type |-> "resetVotes"]}
    \cup {[type |-> "addTicket", title |-> t, description |-> d] : t \in Titles, d \in Descriptions}
    \cup {[type |-> "selectTicket", ticketId |-> t] :
             t \in {Null, UnknownTicketId} \cup KnownTicketIds}

IsError(e) == e.msg.type = "error"

\* C13: a command that is answered with an error leaves sessions, users,
\* tickets, votes, reveal flags, associations and the id counter as they were,
\* and the error is the only message sent, to the sender alone
C13_ErrorIsNoOp ==
    \A ws \in open : \A m \in Commands :
        LET r == OnMessageResult(ws, m)
        IN  (\E k \in 1..Len(r.events) : IsError(r.events[k])) =>
                /\ r.sessions = sessions
                /\ r.clientSessions = clientSessions
                /\ r.nextId = nextId
                /\ Len(r.events) = 1
                /\ r.events[1].to = {ws}

\* an observer and a player are connected to one session that has a ticket and
\* no selection: the observer's revealVotes and selectTicket of an unknown id,
\* and the player's addTicket and vote, are each answered with an error
C13_Witness ==
    \E ws \in open : \E c \in open \ {ws} :
        /\ ActsAs(ws, "observer")
        /\ ActsAs(c, "player")
        /\ clientSessions[c].sessionCode = clientSessions[ws].sessionCode
        /\ Len(SessionOf(ws).tickets) > 0
        /\ OnMessageResult(ws, [type |-> "revealVotes"]).events
              = <<ErrorTo(ws, "No ticket selected")>>
        /\ OnMessageResult(ws, [type |-> "selectTicket", ticketId |-> UnknownTicketId]).events
              = <<ErrorTo(ws, "Ticket not found")>>
        /\ OnMessageResult(c, [type |-> "addTicket", title |-> "T", description |-> "D"]).events
              = <<ErrorTo(c, "Only observers can add tickets")>>
        /\ OnMessageResult(c, [type |-> "vote", points |-> 4]).events
              = <<ErrorTo(c, "No ticket selected")>>

\* the observer-only commands, each with the text of its own refusal
ObserverCommands ==
    {<<[type |-> "addTicket", title |-> t, description |-> d], "Only observers can add tickets">> :
        t \in Titles, d \in Descriptions}
    \cup {<<[type |-> "selectTicket", ticketId |-> t], "Only observers can select tickets">> :
             t \in {Null, UnknownTicketId} \cup KnownTicketIds}
    \cup {<<[type |-> "revealVotes"], "Only observers can reveal votes">>,
          <<[type |-> "resetVotes"], "Only observers can reset votes">>}

\* C14: an observer-only command on a connection that has an association whose
\* user is not an observer of the session (a player, or a user no longer in
\* it) is answered with that command's 'Only observers can ...' error and with
\* nothing else
C14_NonObserverRefused ==
    \A ws \in open :
        (ws \in DOMAIN clientSessions /\ ~ActsAs(ws, "observer")) =>
            \A c \in ObserverCommands :
                OnMessageResult(ws, c[1]).events = <<ErrorTo(ws, c[2])>>

\* the socket has an association and the session it names is in the store
InSession(ws) ==
    /\ ws \in DOMAIN clientSessions
    /\ clientSessions[ws].sessionCode \in DOMAIN sessions

TicketsById(ss, code, id) ==
    IF code \notin DOMAIN ss THEN {}
    ELSE {ss[code].tickets[i] : i \in {j \in 1..Len(ss[code].tickets) :
                                          ss[code].tickets[j].id = id}}

\* in the store ss every ticket of session code that was revealed still is
StaysRevealed(ss, code) ==
    \A i \in 1..Len(sessions[code].tickets) :
        sessions[code].tickets[i].revealed =>
            \A t \in TicketsById(ss, code, sessions[code].tickets[i].id) : t.revealed

\* C16: no join, leave, close, addTicket, selectTicket, vote or revealVotes
\* turns a true revealed flag false, and a resetVotes does so only when it
\* succeeds, in its own session, and only for the ticket that is selected
C16_RevealedUntilReset ==
    \A ws \in open : \A code \in DOMAIN sessions :
        /\ StaysRevealed(handleDisconnect(ws, open \ {ws}).sessions, code)
        /\ \A m \in Commands :
              LET r == OnMessageResult(ws, m)
              IN  \/ StaysRevealed(r.sessions, code)
                  \/ /\ m.type = "resetVotes"
                     /\ "ok" \in r.path
                     /\ clientSessions[ws].sessionCode = code
                     /\ \A i \in 1..Len(sessions[code].tickets) :
                           sessions[code].tickets[i].id # sessions[code].selectedTicketId =>
                               r.sessions[code].tickets[i] = sessions[code].tickets[i]

\* an observer and a player are connected to a session with two revealed
\* tickets, one of them selected
C16_Witness ==
    \E ws \in open : \E c \in open \ {ws} :
        /\ ActsAs(ws, "observer")
        /\ ActsAs(c, "player")
        /\ clientSessions[c].sessionCode = clientSessions[ws].sessionCode
        /\ Len(SessionOf(ws).tickets) = 2
        /\ SessionOf(ws).tickets[1].revealed
        /\ SessionOf(ws).tickets[2].revealed
        /\ SessionOf(ws).selectedTicketId = SessionOf(ws).tickets[1].id

\* the open connections whose association names the session code
WholeSession(code) ==
    {c \in open : c \in DOMAIN clientSessions /\ clientSessions[c].sessionCode = code}

\* C17: a revealVotes that succeeds sets revealed of the selected ticket and
\* votingRevealed to true and changes nothing else (every votes mapping, the
\* users, the other tickets and the selection are as before); it sends one
\* votesRevealed, with the ticket, to every open connection of the session;
\* when the ticket was revealed already the store is left exactly as it was
C17_RevealIdempotent ==
    \A ws \in open :
        LET r == OnMessageResult(ws, [type |-> "revealVotes"])
        IN  "ok" \in r.path =>
                LET before == SessionOf(ws)
                    after == r.sessions[before.code]
                IN  /\ ActsAs(ws, "observer")
                    /\ after.votingRevealed
                    /\ after.selectedTicketId = before.selectedTicketId
                    /\ after.users = before.users
                    /\ Len(after.tickets) = Len(before.tickets)
                    /\ \A i \in 1..Len(before.tickets) :
                          /\ after.tickets[i].votes = before.tickets[i].votes
                          /\ IF before.tickets[i].id = before.selectedTicketId
                             THEN after.tickets[i] = [before.tickets[i] EXCEPT !.revealed = TRUE]
                             ELSE after.tickets[i] = before.tickets[i]
                    /\ \A c \in DOMAIN sessions : c # before.code => r.sessions[c] = sessions[c]
                    /\ DOMAIN r.sessions = DOMAIN sessions
                    /\ r.clientSessions = clientSessions
                    /\ r.nextId = nextId
                    /\ Len(r.events) = 1
                    /\ r.events[1].msg.type = "votesRevealed"
                    /\ r.events[1].msg.ticket \in Selected(after)
                    /\ r.events[1].to = WholeSession(before.code)
                    /\ ws \in r.events[1].to
                    /\ (\E t \in Selected(before) : t.revealed) => r.sessions = sessions

\* an observer is about to reveal a ticket that is revealed already and holds
\* a vote, while a second connection of the session is open
C17_Witness ==
    \E ws \in open :
        /\ "ok" \in OnMessageResult(ws, [type |-> "revealVotes"]).path
        /\ \E t \in Selected(SessionOf(ws)) : t.revealed /\ t.votes # EmptyMap
        /\ Cardinality(WholeSession(clientSessions[ws].sessionCode)) = 2

SelectMsgs ==
    {[type |-> "selectTicket", ticketId |-> t] : t \in {Null, UnknownTicketId} \cup KnownTicketIds}

\* C18: a selectTicket that succeeds sets selectedTicketId to the given id, which
\* is the id of a ticket of the session, and votingRevealed to that ticket's
\* revealed flag, and changes nothing else: tickets (votes and revealed flags
\* included), users, other sessions, associations and the id counter are as before
C18_SelectFrame ==
    \A ws \in open : \A m \in SelectMsgs :
        LET r == OnMessageResult(ws, m)
        IN  "ok" \in r.path =>
                LET before == SessionOf(ws)
                    after == r.sessions[before.code]
                IN  /\ after.selectedTicketId = m.ticketId
                    /\ \E i \in 1..Len(before.tickets) :
                          /\ before.tickets[i].id = m.ticketId
                          /\ after.votingRevealed = before.tickets[i].revealed
                    /\ after.tickets = before.tickets
                    /\ after.users = before.users
                    /\ after.code = before.code
                    /\ DOMAIN r.sessions = DOMAIN sessions
                    /\ \A c \in DOMAIN sessions : c # before.code => r.sessions[c] = sessions[c]
                    /\ r.clientSessions = clientSessions
                    /\ r.nextId = nextId

\* an unrevealed ticket is selected and an observer is about to select the
\* other ticket of the session again, which is revealed and holds a vote
C18_Witness ==
    \E ws \in open :
        /\ ActsAs(ws, "observer")
        /\ Len(SessionOf(ws).tickets) = 2
        /\ SessionOf(ws).tickets[1].revealed
        /\ SessionOf(ws).tickets[1].votes # EmptyMap
        /\ ~SessionOf(ws).tickets[2].revealed
        /\ SessionOf(ws).selectedTicketId = SessionOf(ws).tickets[2].id
        /\ ~SessionOf(ws).votingRevealed
        /\ "ok" \in OnMessageResult(ws, [type |-> "selectTicket",
                                         ticketId |-> SessionOf(ws).tickets[1].id]).path

\* the positions in the event sequence ev of the messages of a type
EventsOfType(ev, type) == {k \in 1..Len(ev) : ev[k].msg.type = type}

\* C19: a join that is not answered with an error sends one sessionState and
\* one userJoined; a sessionState holds the session as the join left it and
\* the resolved userId and goes to the joining connection alone; a userJoined
\* holds the resolved user and goes to every other open connection associated
\* with the session and not to the joining connection
C19_JoinNotifications ==
    \A ws \in open : \A m \in JoinMsgsAny :
        LET r == OnMessageResult(ws, m)
            states == EventsOfType(r.events, "sessionState")
            joins == EventsOfType(r.events, "userJoined")
        IN  /\ EventsOfType(r.events, "error") = {} =>
                  Cardinality(states) = 1 /\ Cardinality(joins) = 1
            /\ \A k \in states :
                  /\ r.events[k].to = {ws}
                  /\ r.events[k].msg.userId = r.clientSessions[ws].userId
                  /\ r.events[k].msg.session = r.sessions[m.teamCode]
            /\ \A k \in joins :
                  /\ r.events[k].to = WholeSession(m.teamCode) \ {ws}
                  /\ r.events[k].msg.user =
                        [id |-> r.clientSessions[ws].userId, name |-> m.name, role |-> m.role]
                  /\ \E i \in 1..Len(r.sessions[m.teamCode].users) :
                        r.sessions[m.teamCode].users[i] = r.events[k].msg.user
            /\ \A k \in 1..Len(r.events) :
                  r.events[k].msg.type \in {"sessionState", "userJoined", "userLeft", "error"}

\* a connection that is in a session joins it again under its user id while
\* another open connection is associated with the session
C19_Witness ==
    \E ws \in open : \E m \in JoinMsgs :
        /\ Matches(m)
        /\ ws \in WholeSession(m.teamCode)
        /\ clientSessions[ws].userId = m.userId
        /\ WholeSession(m.teamCode) \ {ws} # {}

\* C20: a join, for any team code, name, role and user id, is answered with no
\* error and leaves the joining connection associated with (teamCode, uid),
\* uid being the id of a user of the session teamCode who carries the given
\* name and role
C20_JoinAlwaysSucceeds ==
    \A ws \in open : \A m \in JoinMsgsAny :
        LET r == OnMessageResult(ws, m)
        IN  /\ EventsOfType(r.events, "error") = {}
            /\ ws \in DOMAIN r.clientSessions
            /\ r.clientSessions[ws].sessionCode = m.teamCode
            /\ m.teamCode \in DOMAIN r.sessions
            /\ \E i \in 1..Len(r.sessions[m.teamCode].users) :
                  r.sessions[m.teamCode].users[i] =
                      [id |-> r.clientSessions[ws].userId, name |-> m.name, role |-> m.role]

(***************************************************************************)
(* The vote analysis, stated from the counted votes: the entries of a      *)
(* ticket's votes whose key is the id of a user holding the player role.   *)
(***************************************************************************)
Counted(session, t) ==
    {id \in DOMAIN t.votes :
        \E i \in 1..Len(session.users) :
            session.users[i].id = id /\ session.users[i].role = "player"}

\* how many of the voters C voted v on t
CountOf(t, C, v) == Cardinality({id \in C : t.votes[id] = v})

\* the counted votes as a bag: value |-> number of voters
VoteBag(t, C) == [v \in {t.votes[id] : id \in C} |-> CountOf(t, C, v)]

\* the k-th smallest of the votes of C
Kth(t, C, k) ==
    CHOOSE v \in {t.votes[id] : id \in C} :
        /\ Cardinality({id \in C : t.votes[id] < v}) < k
        /\ k <= Cardinality({id \in C : t.votes[id] <= v})

\* twice the median: the middle vote, or the mean of the two middle votes
Median2(t, C) ==
    LET n == Cardinality(C)
    IN  IF n % 2 = 1 THEN 2 * Kth(t, C, (n + 1) \div 2)
        ELSE Kth(t, C, n \div 2) + Kth(t, C, n \div 2 + 1)

\* the scale value nearest to m2 / 2, the lower one of two equally near
NearestOnScale(m2) ==
    CHOOSE p \in TheScale :
        \A q \in TheScale :
            \/ Abs(2 * q - m2) > Abs(2 * p - m2)
            \/ Abs(2 * q - m2) = Abs(2 * p - m2) /\ p <= q

\* (a) the agreed value, (b) the value of more than half of the votes, (c) the
\* scale value nearest to the median
RecommendedFor(t, C) ==
    LET values == {t.votes[id] : id \in C}
    IN  IF Cardinality(values) = 1 THEN CHOOSE v \in values : TRUE
        ELSE IF \E v \in values : 2 * CountOf(t, C, v) > Cardinality(C)
             THEN CHOOSE v \in values : 2 * CountOf(t, C, v) > Cardinality(C)
             ELSE NearestOnScale(Median2(t, C))

\* the analysis an observer's revealVotes sends, with the session and its selected ticket
Revealed(ws) ==
    LET r == OnMessageResult(ws, [type |-> "revealVotes"])
    IN  IF "ok" \in r.path
        THEN {[analysis |-> r.events[1].msg.analysis,
               session |-> SessionOf(ws),
               ticket |-> r.events[1].msg.ticket]}
        ELSE {}

\* C21: with at least one counted vote, the recommendedPoint of a reveal is the
\* agreed value if all counted votes agree, else the value voted by more than
\* half of the counted voters if there is one, else the scale value nearest to
\* the median, the lower one at equal distance; the median is the middle vote
\* or the mean of the two middle votes; {1,2,2,3} gives 2 and {1,1,1,8} gives 1
C21_RecommendedPoint ==
    \A ws \in open : \A x \in Revealed(ws) :
        LET C == Counted(x.session, x.ticket)
        IN  C # {} =>
                /\ x.analysis.recommendedPoint = RecommendedFor(x.ticket, C)
                /\ x.analysis.median2 = Median2(x.ticket, C)
                /\ VoteBag(x.ticket, C) = (1 :> 1 @@ 2 :> 2 @@ 3 :> 1) =>
                      x.analysis.recommendedPoint = 2
                /\ VoteBag(x.ticket, C) = (1 :> 3 @@ 8 :> 1) =>
                      x.analysis.recommendedPoint = 1

\* the four players voted 1, 2, 2 and 3: no agreement, no majority, median 2
C21_Witness ==
    \E ws \in open : \E x \in Revealed(ws) :
        VoteBag(x.ticket, Counted(x.session, x.ticket)) = (1 :> 1 @@ 2 :> 2 @@ 3 :> 1)

\* C22: with at least one counted vote, the mode of a reveal is a value with
\* the largest number of counted voters, and the smallest such value
C22_ModeIsSmallestMostVoted ==
    \A ws \in open : \A x \in Revealed(ws) :
        LET C == Counted(x.session, x.ticket)
            values == {x.ticket.votes[id] : id \in C}
            most == {v \in values :
                        \A u \in values : CountOf(x.ticket, C, u) <= CountOf(x.ticket, C, v)}
        IN  C # {} =>
                /\ x.analysis.mode \in most
                /\ \A v \in most : x.analysis.mode <= v

\* two values share the largest count, and the smaller is not the lowest vote
C22_Witness ==
    \E ws \in open : \E x \in Revealed(ws) :
        VoteBag(x.ticket, Counted(x.session, x.ticket)) = (1 :> 1 @@ 3 :> 2 @@ 8 :> 2)
        \/ VoteBag(x.ticket, Counted(x.session, x.ticket)) = (2 :> 2 @@ 3 :> 2)

\* the analysis of no counted vote
ZeroAnalysis ==
    [consensus |-> FALSE, mode |-> Null, median2 |-> 0,
     distribution |-> EmptyMap, recommendedPoint |-> 0]

\* C23: consensus is true exactly when the counted votes are at least one and
\* all of one value; without a counted vote the analysis is
\* {consensus false, mode null, median 0, distribution {}, recommendedPoint 0}
C23_ConsensusIsOneValue ==
    \A ws \in open : \A x \in Revealed(ws) :
        LET C == Counted(x.session, x.ticket)
        IN  /\ x.analysis.consensus <=>
                  /\ C # {}
                  /\ \A a, b \in C : x.ticket.votes[a] = x.ticket.votes[b]
            /\ C = {} => x.analysis = ZeroAnalysis

\* a reveal of several agreeing counted votes beside a stored vote of another
\* value that is not counted
C23_Witness ==
    \E ws \in open : \E x \in Revealed(ws) :
        /\ Cardinality(Counted(x.session, x.ticket)) > 1
        /\ x.analysis.consensus
        /\ \E a, b \in DOMAIN x.ticket.votes : x.ticket.votes[a] # x.ticket.votes[b]

\* the commands that can send votesRevealed
RevealingMsgs == {[type |-> "revealVotes"]} \cup VoteMsgs

\* the analysis of ticket t from the votes of the voters C alone
AnalysisOf(t, C) ==
    IF C = {} THEN ZeroAnalysis
    ELSE [consensus |-> \A a, b \in C : t.votes[a] = t.votes[b],
          mode |-> CHOOSE v \in {t.votes[id] : id \in C} :
                      \A id \in C :
                          \/ CountOf(t, C, t.votes[id]) < CountOf(t, C, v)
                          \/ CountOf(t, C, t.votes[id]) = CountOf(t, C, v) /\ v <= t.votes[id],
          median2 |-> Median2(t, C),
          distribution |-> [v \in {t.votes[id] : id \in C} |-> {id \in C : t.votes[id] = v}],
          recommendedPoint |-> RecommendedFor(t, C)]

\* C24: the analysis of every votesRevealed is the analysis of the votes of
\* the users who are players of the session when it is sent; stored votes of
\* users who left, were displaced or are now observers do not enter it
C24_AnalysisCountsCurrentPlayers ==
    \A ws \in open : \A m \in RevealingMsgs :
        LET r == OnMessageResult(ws, m)
        IN  \A k \in EventsOfType(r.events, "votesRevealed") :
                LET e == r.events[k].msg
                    session == r.sessions[clientSessions[ws].sessionCode]
                IN  e.analysis = AnalysisOf(e.ticket, Counted(session, e.ticket))

\* a votesRevealed for a ticket that holds a counted vote, the vote of a user
\* who is an observer now and the vote of a user who is no longer in the session
C24_Witness ==
    \E ws \in open : \E m \in RevealingMsgs :
        LET r == OnMessageResult(ws, m)
        IN  \E k \in EventsOfType(r.events, "votesRevealed") :
                LET e == r.events[k].msg
                    session == r.sessions[clientSessions[ws].sessionCode]
                    ids == {session.users[i].id : i \in 1..Len(session.users)}
                IN  /\ Counted(session, e.ticket) # {}
                    /\ \E id \in DOMAIN e.ticket.votes : id \notin ids
                    /\ \E id \in DOMAIN e.ticket.votes :
                          id \in ids /\ id \notin Counted(session, e.ticket)
                    /\ \E id \in DOMAIN e.ticket.votes \ Counted(session, e.ticket) :
                          \A c \in Counted(session, e.ticket) :
                              e.ticket.votes[id] # e.ticket.votes[c]

AddTicketMsgs ==
    {[type |-> "addTicket", title |-> t, description |-> d] : t \in Titles, d \in Descriptions}

\* C25: an addTicket that succeeds appends one ticket, with the title and the
\* description of the command, an id that no ticket of the store has, no votes
\* and revealed = false, at the end of the session's tickets; the tickets that
\* were there, their order, the selection, votingRevealed, the users, the other
\* sessions and the associations are as before; one ticketAdded with the new
\* ticket goes to every open connection of the session, the sender included
C25_AddTicketAppends ==
    \A ws \in open : \A m \in AddTicketMsgs :
        LET r == OnMessageResult(ws, m)
        IN  "ok" \in r.path =>
                LET before == SessionOf(ws)
                    after == r.sessions[before.code]
                    n == Len(before.tickets)
                    ticket == after.tickets[n + 1]
                IN  /\ Len(after.tickets) = n + 1
                    /\ SubSeq(after.tickets, 1, n) = before.tickets
                    /\ ticket.title = m.title /\ ticket.description = m.description
                    /\ ticket.votes = EmptyMap
                    /\ ticket.revealed = FALSE
                    /\ \A c \in DOMAIN sessions : \A i \in 1..Len(sessions[c].tickets) :
                          sessions[c].tickets[i].id # ticket.id
                    /\ after.selectedTicketId = before.selectedTicketId
                    /\ after.votingRevealed = before.votingRevealed
                    /\ after.users = before.users
                    /\ after.code = before.code
                    /\ DOMAIN r.sessions = DOMAIN sessions
                    /\ \A c \in DOMAIN sessions : c # before.code => r.sessions[c] = sessions[c]
                    /\ r.clientSessions = clientSessions
                    /\ Len(r.events) = 1
                    /\ r.events[1].msg = [type |-> "ticketAdded", ticket |-> ticket]
                    /\ r.events[1].to = WholeSession(before.code)
                    /\ ws \in r.events[1].to

\* an observer adds a second ticket to a session with another open connection,
\* whose first ticket is selected, revealed and holds a vote
C25_Witness ==
    \E ws \in open :
        /\ ActsAs(ws, "observer")
        /\ Len(SessionOf(ws).tickets) = 1
        /\ SessionOf(ws).tickets[1].votes # EmptyMap
        /\ SessionOf(ws).tickets[1].revealed
        /\ SessionOf(ws).selectedTicketId = SessionOf(ws).tickets[1].id
        /\ WholeSession(SessionOf(ws).code) = Conns
        /\ \A m \in AddTicketMsgs : "ok" \in OnMessageResult(ws, m).path

\* the vote of id on the i-th ticket of session code in the store ss, as a set
VoteEntry(ss, code, i, id) ==
    IF code \in DOMAIN ss /\ i <= Len(ss[code].tickets) /\ id \in DOMAIN ss[code].tickets[i].votes
    THEN {ss[code].tickets[i].votes[id]}
    ELSE {}

\* C26: every stored vote is a value of the scale under the id of a user that
\* was issued; and a command writes or changes a vote entry only if it is a
\* vote sent by a connection whose user is a player of the session then: the
\* entry is that user's, on the selected ticket of the session, and holds the
\* points of the command
C26_VotesWrittenByPlayers ==
    /\ \A code \in DOMAIN sessions : \A i \in 1..Len(sessions[code].tickets) :
          \A id \in DOMAIN sessions[code].tickets[i].votes :
              /\ sessions[code].tickets[i].votes[id] \in TheScale
              /\ id \in 1..nextId.user
    /\ \A ws \in open : \A m \in Commands :
          LET r == OnMessageResult(ws, m)
          IN  \A code \in DOMAIN r.sessions : \A i \in 1..Len(r.sessions[code].tickets) :
                  \A id \in DOMAIN r.sessions[code].tickets[i].votes :
                      VoteEntry(r.sessions, code, i, id) # VoteEntry(sessions, code, i, id) =>
                          /\ m.type = "vote"
                          /\ ActsAs(ws, "player")
                          /\ clientSessions[ws] = [sessionCode |-> code, userId |-> id]
                          /\ sessions[code].tickets[i].id = sessions[code].selectedTicketId
                          /\ r.sessions[code].tickets[i].votes[id] = m.points
                          /\ m.points \in TheScale

\* a player changes their vote on a ticket that also holds the vote of a user
\* who is not a player of the session any more
C26_Witness ==
    \E ws \in open :
        /\ ActsAs(ws, "player")
        /\ \E t \in Selected(SessionOf(ws)) :
              /\ clientSessions[ws].userId \in DOMAIN t.votes
              /\ t.votes[clientSessions[ws].userId] # 5
              /\ \E id \in DOMAIN t.votes : id \notin PlayerIds(SessionOf(ws))
        /\ "ok" \in OnMessageResult(ws, [type |-> "vote", points |-> 5]).path

\* C27: when the send to one recipient of a broadcast fails, every other
\* matching connection still gets the message and no exception leaves the
\* broadcast for the command that made it (a failing send is a send that raises)
C27_BroadcastBestEffort ==
    \A ws \in open : \A m \in Commands : \A bad \in open \ {ws} : \A clients \in ClientOrders :
        LET r == OnMessageResult(ws, m)
        IN  \A k \in 1..Len(r.events) :
                LET d == SendEach(r.events[k].to, clients, 1, {bad})
                IN  /\ d.delivered = r.events[k].to \ {bad}
                    /\ ~d.raised

\* the session a command on ws is processed for, as a set: the teamCode of a
\* join, else the session of the association of ws, if it has one
Target(ws, m) ==
    IF m.type = "join" THEN {m.teamCode}
    ELSE IF ws \in DOMAIN clientSessions THEN {clientSessions[ws].sessionCode}
    ELSE {}

\* C28: a command leaves every session other than the one it is processed for
\* exactly as it was (users, tickets, votes, selection, reveal flags) and
\* creates no other session; every connection other than the sender that gets
\* an event is associated with that session, and so is the sender when it
\* gets anything but an error reply
C28_SessionsIsolated ==
    \A ws \in open : \A m \in Commands :
        LET r == OnMessageResult(ws, m)
            A == Target(ws, m)
        IN  /\ \A B \in DOMAIN sessions \ A : B \in DOMAIN r.sessions /\ r.sessions[B] = sessions[B]
            /\ DOMAIN r.sessions \subseteq DOMAIN sessions \cup A
            /\ \A k \in 1..Len(r.events) : \A c \in r.events[k].to :
                  IF c # ws
                  THEN c \in DOMAIN clientSessions /\ clientSessions[c].sessionCode \in A
                  ELSE \/ IsError(r.events[k])
                       \/ c \notin DOMAIN r.clientSessions
                       \/ r.clientSessions[c].sessionCode \in A

\* an observer of one session adds a ticket while the other open connection
\* is a player of another session
C28_Witness ==
    \E ws \in open : \E c \in open \ {ws} :
        /\ ActsAs(ws, "observer")
        /\ ActsAs(c, "player")
        /\ clientSessions[c].sessionCode # clientSessions[ws].sessionCode
        /\ \A m \in AddTicketMsgs : "ok" \in OnMessageResult(ws, m).path

\* C29: in every reachable state, the association of every connection names a
\* session of the store and the id of a user who is in that session's users
C29_AssociationsRefer ==
    \A ws \in DOMAIN clientSessions :
        /\ clientSessions[ws].sessionCode \in DOMAIN sessions
        /\ \E i \in 1..Len(sessions[clientSessions[ws].sessionCode].users) :
              sessions[clientSessions[ws].sessionCode].users[i].id = clientSessions[ws].userId

\* the commands of a session member
MemberCommands == {m \in Commands : m.type \notin {"join", "leave"}}

\* C30: an addTicket, selectTicket, vote, revealVotes or resetVotes on a
\* connection that has an association raises no exception in its handler and
\* is not answered with the error 'Invalid message format'
C30_MemberCommandsNeverThrow ==
    \A ws \in open \cap DOMAIN clientSessions : \A m \in MemberCommands :
        /\ "throw" \notin handleMessage(ws, m).path
        /\ \A k \in 1..Len(OnMessageResult(ws, m).events) :
              OnMessageResult(ws, m).events[k].msg # [type |-> "error", message |-> "Invalid message format"]

\* C31: in every reachable state, every user of every session is the user of
\* the association of at least one connection
C31_EveryUserHasAConnection ==
    \A code \in DOMAIN sessions : \A i \in 1..Len(sessions[code].users) :
        \E ws \in DOMAIN clientSessions :
            clientSessions[ws] = [sessionCode |-> code, userId |-> sessions[code].users[i].id]

\* C32: in every reachable state, no two connections are associated with the
\* same session and user
C32_OneConnectionPerUser ==
    \A a, b \in DOMAIN clientSessions : clientSessions[a] = clientSessions[b] => a = b

\* C33: in every reachable state, no two users of a session have the same name
C33_NamesUnique ==
    \A code \in DOMAIN sessions : \A i, j \in 1..Len(sessions[code].users) :
        sessions[code].users[i].name = sessions[code].users[j].name => i = j

\* the events that broadcast() sends
BroadcastTypes ==
    {"ticketAdded", "ticketSelected", "voteReceived", "votesRevealed", "votesReset",
     "userJoined", "userLeft"}

\* the user of the association of c is in the users of its session in the store ss
IsMember(ss, c) ==
    /\ c \in DOMAIN clientSessions
    /\ clientSessions[c].sessionCode \in DOMAIN ss
    /\ \E i \in 1..Len(ss[clientSessions[c].sessionCode].users) :
          ss[clientSessions[c].sessionCode].users[i].id = clientSessions[c].userId

\* C34: every connection other than the sender that receives a broadcast of a
\* command is associated with a user who is in the users of the session when
\* the command arrives or when it is done
C34_RecipientsAreMembers ==
    \A ws \in open : \A m \in Commands :
        LET r == OnMessageResult(ws, m)
        IN  \A k \in 1..Len(r.events) :
                r.events[k].msg.type \in BroadcastTypes =>
                    \A c \in r.events[k].to \ {ws} :
                        IsMember(sessions, c) \/ IsMember(r.sessions, c)

\* C35: a vote command leaves the votes of every revealed ticket as they are
C35_RevealedVotesFrozen ==
    \A ws \in open : \A m \in VoteMsgs :
        LET r == OnMessageResult(ws, m)
        IN  \A code \in DOMAIN sessions : \A i \in 1..Len(sessions[code].tickets) :
                sessions[code].tickets[i].revealed =>
                    /\ code \in DOMAIN r.sessions
                    /\ r.sessions[code].tickets[i].votes = sessions[code].tickets[i].votes

\* C35 as the code has it: a vote that succeeds while the selected ticket is
\* revealed sets the entry of the sending player on that ticket to the points
\* of the command, adding or replacing it; the entries of the other users, the
\* other tickets and the two reveal flags stay as they are, and voteReceived
\* is sent as for any vote
C35_VoteOverwritesWhileRevealed ==
    \A ws \in open : \A m \in VoteMsgs :
        LET r == OnMessageResult(ws, m)
        IN  "ok" \in r.path =>
                LET before == SessionOf(ws)
                    after == r.sessions[before.code]
                    userId == clientSessions[ws].userId
                IN  \A i \in 1..Len(before.tickets) :
                        before.tickets[i].revealed =>
                            IF before.tickets[i].id = before.selectedTicketId
                            THEN /\ after.tickets[i].votes =
                                        [id \in DOMAIN before.tickets[i].votes \cup {userId} |->
                                            IF id = userId THEN m.points
                                            ELSE before.tickets[i].votes[id]]
                                 /\ after.tickets[i].revealed
                                 /\ after.votingRevealed
                                 /\ r.events[1].msg.type = "voteReceived"
                                 /\ r.events[1].msg.voterId = userId
                            ELSE after.tickets[i] = before.tickets[i]

\* a player whose vote on the selected, revealed ticket is 1 votes 5
C35_Witness ==
    \E ws \in open :
        /\ ActsAs(ws, "player")
        /\ \E t \in Selected(SessionOf(ws)) :
              /\ t.revealed
              /\ clientSessions[ws].userId \in DOMAIN t.votes
              /\ t.votes[clientSessions[ws].userId] = 1
        /\ "ok" \in OnMessageResult(ws, [type |-> "vote", points |-> 5]).path

\* the mean of the votes of the voters C on t, in tenths, rounded to the
\* nearest tenth (a half goes up); 0 for no voter
Mean10(t, C) ==
    IF C = {} THEN 0
    ELSE CHOOSE a \in 0..(10 * 13) :
            /\ 2 * a * Cardinality(C) <= 20 * SumOver(t.votes, C) + Cardinality(C)
            /\ 20 * SumOver(t.votes, C) + Cardinality(C) < 2 * (a + 1) * Cardinality(C)

\* the voters an analysis counts
DistributionVoters(analysis) ==
    UNION {analysis.distribution[v] : v \in DOMAIN analysis.distribution}

\* C36: the average of every votesRevealed is the mean, to one decimal, of
\* the votes that its analysis counts in the distribution
C36_AverageOfAnalyzedVotes ==
    \A ws \in open : \A m \in RevealingMsgs :
        LET r == OnMessageResult(ws, m)
        IN  \A k \in EventsOfType(r.events, "votesRevealed") :
                r.events[k].msg.average10 =
                    Mean10(r.events[k].msg.ticket, DistributionVoters(r.events[k].msg.analysis))

\* C36 as the code has it: the average of every votesRevealed is the mean, to
\* one decimal, of all the votes stored on the ticket (0 when there is none),
\* while the distribution counts the stored votes of the current players only;
\* the two are over the same votes exactly when every stored vote is a current
\* player's
C36_AverageOfStoredVotes ==
    \A ws \in open : \A m \in RevealingMsgs :
        LET r == OnMessageResult(ws, m)
        IN  \A k \in EventsOfType(r.events, "votesRevealed") :
                LET e == r.events[k].msg
                    session == r.sessions[clientSessions[ws].sessionCode]
                IN  /\ e.average10 = Mean10(e.ticket, DOMAIN e.ticket.votes)
                    /\ DistributionVoters(e.analysis) = Counted(session, e.ticket)

\* a votesRevealed for a ticket with the votes of two players and the vote of
\* a user who is not a player, where the two means differ
C36_Witness ==
    \E ws \in open : \E m \in RevealingMsgs :
        LET r == OnMessageResult(ws, m)
        IN  \E k \in EventsOfType(r.events, "votesRevealed") :
                LET e == r.events[k].msg
                IN  /\ Cardinality(DistributionVoters(e.analysis)) = 2
                    /\ Cardinality(DOMAIN e.ticket.votes) = 3
                    /\ Mean10(e.ticket, DOMAIN e.ticket.votes)
                          # Mean10(e.ticket, DistributionVoters(e.analysis))

\* C37: with at least one counted vote, the recommendedPoint of a reveal is a
\* value of the scale, not below the smallest and not above the largest
\* counted vote
C37_RecommendedWithinVotes ==
    \A ws \in open : \A x \in Revealed(ws) :
        LET C == Counted(x.session, x.ticket)
        IN  C # {} =>
                /\ x.analysis.recommendedPoint \in TheScale
                /\ \E a, b \in C :
                      /\ x.ticket.votes[a] <= x.analysis.recommendedPoint
                      /\ x.analysis.recommendedPoint <= x.ticket.votes[b]

\* a reveal whose recommendedPoint is the rounded median and nobody's vote
C37_Witness ==
    \E ws \in open : \E x \in Revealed(ws) :
        LET C == Counted(x.session, x.ticket)
        IN  /\ Cardinality(C) > 1
            /\ \A id \in C : x.ticket.votes[id] # x.analysis.recommendedPoint

====
